---- MODULE Spec2Model ----
(***************************************************************************)
(* A model of the MR01 micropayment bank of mr01.py: the Transaction       *)
(* (check), its payable-amount evaluation, and the Bank ledger with        *)
(* deposit, process_payment and report_double_spend.                       *)
(*                                                                         *)
(* The VRF is an external library.  A proof is modelled by what           *)
(* vrf_fullverify makes of it: whether it verifies for the key and message *)
(* at hand, and the output beta that it carries.                           *)
(***************************************************************************)
EXTENDS Integers, Sequences, FiniteSets, TLC

VARIABLES users, last, deposited, call, wallet, held, threads

vars == <<users, last, deposited, call, wallet, held, threads>>

(***************************************************************************)
(* Program constant and the bounds of the model.                           *)
(***************************************************************************)
MP == 10

NumKeys == 2
MaxSn == 2
MaxMacro == 0
MaxTimeHalves == 1
BetaBits == 2
MantBits == 3
MaxOverdraw == 10
MaxTotal == 20
MaxWalletAmount == 3

Keys == 1..NumKeys

Pow2(n) == 2 ^ n

\* The outputs of the VRF, read as unsigned integers of BetaBits bits.
Betas == 0..(Pow2(BetaBits) - 1)

\* Serial numbers and amounts a caller may hand to the constructor: the
\* small values, and the same shifted by whole macro payments.
Numbers == {a + m * MP : a \in 0..MaxSn, m \in 0..MaxMacro}

\* Wall-clock times a caller may pass, in half seconds.
RawTimes == 0..MaxTimeHalves

DepositAmounts == {-MP, 0, MP}

NoTx == [sn |-> 0, amount |-> 0, sender_key |-> 0, receiver_key |-> 0, timestamp |-> 0]
NoSig == [valid |-> FALSE, beta |-> 0]

SenderSigs == {[valid |-> TRUE, beta |-> 0], NoSig}
ReceiverSigs == {[valid |-> TRUE, beta |-> b] : b \in Betas} \cup {NoSig}

(***************************************************************************)
(* Transaction                                                             *)
(***************************************************************************)
\* The assertions of Transaction.__init__: construction fails without them.
TransactionAsserts(sn, amount) == sn > 0 /\ amount > 0 /\ sn >= amount

\* Transaction.__init__: timestamp is str(int(timestamp)); int() drops the
\* fraction of the (non-negative) time given in half seconds.
Transaction(sn, amount, sender_key, receiver_key, rawtime) ==
    [sn |-> sn, amount |-> amount, sender_key |-> sender_key,
     receiver_key |-> receiver_key, timestamp |-> rawtime \div 2]

\* A slip: two checks over the same coins are taken for the same check.
TxEq_same_coins(a, b) ==
    /\ a.sn = b.sn
    /\ a.amount = b.amount
    /\ a.sender_key = b.sender_key

\* Transaction.__eq__: componentwise over the five fields.
TxEq(a, b) ==
    /\ a.sn = b.sn
    /\ a.amount = b.amount
    /\ a.sender_key = b.sender_key
    /\ a.receiver_key = b.receiver_key
    /\ a.timestamp = b.timestamp

\* The division remaining_amount / float(MP): the quotient rounded to the
\* nearest float of MantBits significant bits (ties to even), as the pair
\* num / 2^exp.
RECURSIVE FloatExp(_, _, _)
FloatExp(a, b, e) ==
    IF a * Pow2(e) >= b * Pow2(MantBits - 1) THEN e ELSE FloatExp(a, b, e + 1)

\* scaled / b rounded to the nearest integer, ties to the even one
RoundHalfEven(scaled, b) ==
    IF 2 * (scaled % b) > b \/ (2 * (scaled % b) = b /\ (scaled \div b) % 2 = 1)
    THEN (scaled \div b) + 1
    ELSE scaled \div b

FloatAt(a, b, e) == [num |-> RoundHalfEven(a * Pow2(e), b), exp |-> e]

\* A slip: the division is Python 2's integer division, float() forgotten.
FloatDiv_int(a, b) == [num |-> a \div b, exp |-> 0]

FloatDiv(a, b) ==
    IF a = 0 THEN [num |-> 0, exp |-> 0] ELSE FloatAt(a, b, FloatExp(a, b, 0))

\* The comparison attempt < (2**BetaBits) * prob of an integer with a float,
\* which Python decides exactly; both sides are scaled by 2^exp here.
BelowTarget(attempt, prob) == attempt * Pow2(prob.exp) < Pow2(BetaBits) * prob.num

\* Transaction.calculate_payment: attempt is int(attempt_hex, 16).
calculate_payment(M, amount, attempt) ==
    LET amount_paid == (amount \div M) * M
        remaining_amount == amount % M
        prob == FloatDiv(remaining_amount, M)
    IN IF BelowTarget(attempt, prob) THEN amount_paid + M ELSE amount_paid

\* calculate_payment(MP, amount, attempt) tabulated over the amounts and VRF
\* outputs that occur, so that it is computed once per pair.
PaymentTable ==
    [amount \in Numbers \cup (0..MaxWalletAmount), attempt \in Betas |->
        calculate_payment(MP, amount, attempt)]

\* Transaction.evaluate: both proofs are verified, then the payment computed.
evaluate(tx, sender_sig, receiver_sig) ==
    IF ~sender_sig.valid THEN [err |-> "InvalidSignature", value |-> 0]
    ELSE IF ~receiver_sig.valid THEN [err |-> "InvalidSignature", value |-> 0]
    ELSE [err |-> "ok", value |-> PaymentTable[tx.amount, receiver_sig.beta]]

(***************************************************************************)
(* Bank                                                                    *)
(***************************************************************************)
user_balance(u, user_key) ==
    IF user_key \notin DOMAIN u THEN 0 ELSE u[user_key].balance

NewUser == [total_received |-> 0, balance |-> 0, history |-> <<>>]

ensure_user_exists(u, user_key) ==
    IF user_key \notin DOMAIN u THEN u @@ (user_key :> NewUser) ELSE u

\* A slip: only checks bearing the same serial number are taken to collide.
intersection_exists_same_sn(tx1, tx2) == tx1.sn = tx2.sn

\* A slip: intervals that only touch are taken to share a coin.
intersection_exists_touching(tx1, tx2) ==
    LET interval1 == <<tx1.sn - tx1.amount + 1, tx1.sn>>
        interval2 == <<tx2.sn - tx2.amount + 1, tx2.sn>>
        fst == IF interval1[1] <= interval2[1] THEN interval1 ELSE interval2
        snd == IF interval1[1] <= interval2[1] THEN interval2 ELSE interval1
    IN fst[1] <= snd[1] /\ snd[1] <= fst[2] + 1

intersection_exists(tx1, tx2) ==
    LET interval1 == <<tx1.sn - tx1.amount + 1, tx1.sn>>
        interval2 == <<tx2.sn - tx2.amount + 1, tx2.sn>>
        fst == IF interval1[1] <= interval2[1] THEN interval1 ELSE interval2
        snd == IF interval1[1] <= interval2[1] THEN interval2 ELSE interval1
    IN fst[1] <= snd[1] /\ snd[1] <= fst[2]

\* The stored checks of the sender, as history.values() yields them.
HistoryTxs(u, k) == {u[k].history[sn][1] : sn \in DOMAIN u[k].history}

\* Bank.find_shared_sn_subrange: the first stored check met that shares a
\* subrange.  The order of a dict's values is not fixed by the program, so
\* any intersecting stored check may be the one returned; NoTx is None.
find_shared_sn_subrange(u, tx) ==
    LET shared == {user_tx \in HistoryTxs(u, tx.sender_key) :
                       intersection_exists(tx, user_tx)}
    IN IF shared = {} THEN {NoTx} ELSE shared

\* A slip: the nominal amount of the check is taken from the sender.
subtract_balance_nominal(u, tx, amount_paid, sender_sig, receiver_sig) ==
    LET rec == u[tx.sender_key]
        hist == IF tx.sn \in DOMAIN rec.history
                THEN [rec.history EXCEPT ![tx.sn] = <<tx, sender_sig, receiver_sig>>]
                ELSE rec.history @@ (tx.sn :> <<tx, sender_sig, receiver_sig>>)
    IN [u EXCEPT ![tx.sender_key] =
            [rec EXCEPT !.balance = rec.balance - tx.amount, !.history = hist]]

subtract_balance(u, tx, amount_paid, sender_sig, receiver_sig) ==
    LET rec == u[tx.sender_key]
        hist == IF tx.sn \in DOMAIN rec.history
                THEN [rec.history EXCEPT ![tx.sn] = <<tx, sender_sig, receiver_sig>>]
                ELSE rec.history @@ (tx.sn :> <<tx, sender_sig, receiver_sig>>)
    IN [u EXCEPT ![tx.sender_key] =
            [rec EXCEPT !.balance = rec.balance - amount_paid, !.history = hist]]

\* A slip: the balance is assigned, not incremented.
add_balance_assign(u, user_key, amount) ==
    LET u1 == ensure_user_exists(u, user_key)
    IN [u1 EXCEPT ![user_key].balance = amount,
                  ![user_key].total_received = @ + amount]

\* A slip: the credit is not counted in total_received.
add_balance_uncounted(u, user_key, amount) ==
    LET u1 == ensure_user_exists(u, user_key)
    IN [u1 EXCEPT ![user_key].balance = @ + amount]

add_balance(u, user_key, amount) ==
    LET u1 == ensure_user_exists(u, user_key)
    IN [u1 EXCEPT ![user_key].balance = @ + amount,
                  ![user_key].total_received = @ + amount]

\* A slip: a check that pays nothing is let through.
verify_payable_any(tx, sender_sig, receiver_sig) ==
    LET ev == evaluate(tx, sender_sig, receiver_sig)
    IN IF ev.err # "ok" THEN [err |-> ev.err, amount_paid |-> 0]
       ELSE [err |-> "ok", amount_paid |-> ev.value]

verify_payable(tx, sender_sig, receiver_sig) ==
    LET ev == evaluate(tx, sender_sig, receiver_sig)
    IN IF ev.err # "ok" THEN [err |-> ev.err, amount_paid |-> 0]
       ELSE IF ev.value = 0 THEN [err |-> "NotPayable", amount_paid |-> 0]
       ELSE [err |-> "ok", amount_paid |-> ev.value]

\* A slip: the funds are checked before the coin range.
validate_payment_funds_first(u, tx, sender_sig, receiver_sig, intersect_tx) ==
    LET vp == verify_payable(tx, sender_sig, receiver_sig)
        fail(e) == [err |-> e, amount_paid |-> 0]
    IN IF vp.err # "ok" THEN vp
       ELSE IF tx.sender_key \notin DOMAIN u THEN fail("UnknownSender")
       ELSE IF intersect_tx # NoTx
            THEN IF TxEq(tx, intersect_tx) THEN fail("AlreadyProcessed")
                 ELSE fail("DoubleSpend")
       ELSE IF u[tx.sender_key].balance < vp.amount_paid THEN fail("NotEnoughFunds")
       ELSE IF tx.sn - tx.amount < 0 \/ tx.sn > u[tx.sender_key].total_received
            THEN fail("InvalidCoinInterval")
       ELSE vp

\* A slip: the sender's balance is not compared with the payment.
validate_payment_no_funds(u, tx, sender_sig, receiver_sig, intersect_tx) ==
    LET vp == verify_payable(tx, sender_sig, receiver_sig)
        fail(e) == [err |-> e, amount_paid |-> 0]
    IN IF vp.err # "ok" THEN vp
       ELSE IF tx.sender_key \notin DOMAIN u THEN fail("UnknownSender")
       ELSE IF intersect_tx # NoTx
            THEN IF TxEq(tx, intersect_tx) THEN fail("AlreadyProcessed")
                 ELSE fail("DoubleSpend")
       ELSE IF tx.sn - tx.amount < 0 \/ tx.sn > u[tx.sender_key].total_received
            THEN fail("InvalidCoinInterval")
       ELSE vp

\* Bank.validate_payment, intersect_tx being what find_shared_sn_subrange
\* returned (consulted only once the sender is known to exist).
validate_payment(u, tx, sender_sig, receiver_sig, intersect_tx) ==
    LET vp == verify_payable(tx, sender_sig, receiver_sig)
        fail(e) == [err |-> e, amount_paid |-> 0]
    IN IF vp.err # "ok" THEN vp
       ELSE IF tx.sender_key \notin DOMAIN u THEN fail("UnknownSender")
       ELSE IF intersect_tx # NoTx
            THEN IF TxEq(tx, intersect_tx) THEN fail("AlreadyProcessed")
                 ELSE fail("DoubleSpend")
       ELSE IF tx.sn - tx.amount < 0 \/ tx.sn > u[tx.sender_key].total_received
            THEN fail("InvalidCoinInterval")
       ELSE IF u[tx.sender_key].balance < vp.amount_paid THEN fail("NotEnoughFunds")
       ELSE vp

\* A slip: the receiver's record is made before the payment is validated.
process_payment_eager(u, tx, sender_sig, receiver_sig, v) ==
    IF v.err # "ok" THEN ensure_user_exists(u, tx.receiver_key)
    ELSE add_balance(subtract_balance(u, tx, v.amount_paid, sender_sig, receiver_sig),
                     tx.receiver_key, v.amount_paid)

\* A slip: a check turned down for its coin interval or for lack of funds
\* is stored all the same, without payment.
process_payment_burning(u, tx, sender_sig, receiver_sig, v) ==
    IF v.err \in {"InvalidCoinInterval", "NotEnoughFunds"}
    THEN subtract_balance(u, tx, 0, sender_sig, receiver_sig)
    ELSE IF v.err # "ok" THEN u
    ELSE add_balance(subtract_balance(u, tx, v.amount_paid, sender_sig, receiver_sig),
                     tx.receiver_key, v.amount_paid)

\* Bank.process_payment: the ledger after the call that validated with v.
process_payment(u, tx, sender_sig, receiver_sig, v) ==
    IF v.err # "ok" THEN u
    ELSE add_balance(subtract_balance(u, tx, v.amount_paid, sender_sig, receiver_sig),
                     tx.receiver_key, v.amount_paid)

\* Bank.report_double_spend; distinct tells whether tx1 and tx2 are two
\* objects.  Transaction defines __eq__ only, so `tx1 != tx2` is the default
\* comparison of the two instances, by identity.
report_double_spend(tx1, sender_sig1, receiver_sig1, tx2, sender_sig2, receiver_sig2, distinct) ==
    IF evaluate(tx1, sender_sig1, receiver_sig1).err # "ok" THEN "InvalidSignature"
    ELSE IF evaluate(tx2, sender_sig2, receiver_sig2).err # "ok" THEN "InvalidSignature"
    ELSE IF distinct /\ tx1.sender_key = tx2.sender_key /\ intersection_exists(tx1, tx2)
         THEN "DoubleSpend"
    ELSE "ok"

\* Bank.deposit
deposit(u, user_key, amount) == add_balance(u, user_key, amount)

(***************************************************************************)
(* Wallet                                                                  *)
(***************************************************************************)
\* Wallet.__init__ for the key pair of pubkey and a local expected amount.
NewWallet(pubkey, amount) ==
    [total_received |-> 0, sn |-> 0, amount |-> amount, pubkey |-> pubkey]

\* A slip: the serial number is not advanced by the amount paid.
pay_same_sn(w, receiver_key, amount, is_int, rawtime) ==
    IF ~is_int THEN [err |-> "AssertionError", wallet |-> w, tx |-> NoTx, sender_sig |-> NoSig]
    ELSE IF amount < 1 THEN [err |-> "ValueError", wallet |-> w, tx |-> NoTx, sender_sig |-> NoSig]
    ELSE IF amount > w.amount THEN [err |-> "ValueError", wallet |-> w, tx |-> NoTx, sender_sig |-> NoSig]
    ELSE [err |-> "ok",
          wallet |-> [w EXCEPT !.amount = @ - amount],
          tx |-> Transaction(w.sn + amount, amount, w.pubkey, receiver_key, rawtime),
          sender_sig |-> [valid |-> TRUE, beta |-> 0]]

\* Wallet.pay; is_int is isinstance(amount, int).  The result holds the
\* wallet after the call, the check and the sender's proof.
pay(w, receiver_key, amount, is_int, rawtime) ==
    IF ~is_int THEN [err |-> "AssertionError", wallet |-> w, tx |-> NoTx, sender_sig |-> NoSig]
    ELSE IF amount < 1 THEN [err |-> "ValueError", wallet |-> w, tx |-> NoTx, sender_sig |-> NoSig]
    ELSE IF amount > w.amount THEN [err |-> "ValueError", wallet |-> w, tx |-> NoTx, sender_sig |-> NoSig]
    ELSE [err |-> "ok",
          wallet |-> [w EXCEPT !.sn = @ + amount, !.amount = @ - amount],
          tx |-> Transaction(w.sn + amount, amount, w.pubkey, receiver_key, rawtime),
          sender_sig |-> [valid |-> TRUE, beta |-> 0]]

\* Wallet.sign_receive: the outcome; the wallet is not written.
sign_receive(w, T, sender_sig) ==
    IF T.receiver_key # w.pubkey THEN "AssertionError"
    ELSE IF ~sender_sig.valid THEN "InvalidSignature"
    ELSE "ok"

(***************************************************************************)
(* The VRF gives one output per key and message: a check that is stored    *)
(* with its proofs can be presented again with valid proofs only if they   *)
(* carry the output stored with it.                                        *)
(***************************************************************************)
VRFUnique(u, tx, sender_sig, receiver_sig) ==
    (sender_sig.valid /\ receiver_sig.valid /\ tx.sender_key \in DOMAIN u) =>
        \A sn \in DOMAIN u[tx.sender_key].history :
            TxEq(u[tx.sender_key].history[sn][1], tx) =>
                receiver_sig.beta = u[tx.sender_key].history[sn][3].beta

(***************************************************************************)
(* The state machine.  `last` records the latest call and its outcome,     *)
(* `deposited` the sum of the amounts passed to deposit.  The variables     *)
(* call, wallet, held and threads belong to the specifications further     *)
(* down, each of which leaves idle the variables it has no use for.        *)
(***************************************************************************)
NoCall == [op |-> "none", result |-> "ok", amount |-> 0]

Idle == "idle"

Init ==
    /\ users = <<>>
    /\ last = NoCall
    /\ deposited = 0
    /\ call = Idle
    /\ wallet = Idle
    /\ held = Idle
    /\ threads = Idle

Deposit ==
    \E user_key \in Keys, amount \in DepositAmounts :
        LET u1 == deposit(users, user_key, amount)
        IN /\ u1[user_key].total_received >= -MaxOverdraw
           /\ u1[user_key].total_received <= MaxTotal
           /\ users' = u1
           /\ deposited' = deposited + amount
           /\ last' = [op |-> "deposit", result |-> "ok", amount |-> amount]
           /\ UNCHANGED <<call, wallet, held, threads>>

\* The arguments a caller can pass to Transaction(...) without failing.
CtorArgs ==
    {a \in Numbers \X Numbers \X Keys \X Keys \X RawTimes :
        TransactionAsserts(a[1], a[2])}

\* The checks a caller can construct.
Checks == {Transaction(a[1], a[2], a[3], a[4], a[5]) : a \in CtorArgs}

\* What find_shared_sn_subrange may return to validate_payment, which calls
\* it only for a sender with a record.
SharedOf(u, tx) ==
    IF tx.sender_key \in DOMAIN u THEN find_shared_sn_subrange(u, tx) ELSE {NoTx}

ProcessPayment ==
    \E tx \in Checks, sender_sig \in SenderSigs, receiver_sig \in ReceiverSigs :
        /\ VRFUnique(users, tx, sender_sig, receiver_sig)
        /\ \E intersect_tx \in SharedOf(users, tx) :
              LET v == validate_payment(users, tx, sender_sig, receiver_sig,
                                        intersect_tx)
                  u1 == process_payment(users, tx, sender_sig, receiver_sig, v)
              IN /\ \A k \in DOMAIN u1 : u1[k].total_received <= MaxTotal
                 /\ users' = u1
                 /\ last' = [op |-> "process_payment", result |-> v.err,
                             amount |-> v.amount_paid]
                 /\ UNCHANGED <<deposited, call, wallet, held, threads>>

ReportResults == {"ok", "DoubleSpend", "InvalidSignature"}

\* report_double_spend reads no ledger state: the outcomes it has over the
\* checks and proofs a reporter may present (two objects, or one passed twice).
ReportOutcomes ==
    {result \in ReportResults :
        \E tx1 \in Checks, tx2 \in Checks, sig1 \in SenderSigs, sig2 \in SenderSigs,
           distinct \in BOOLEAN :
            /\ (~distinct => tx1 = tx2)
            /\ result = report_double_spend(tx1, sig1, sig1, tx2, sig2, sig2, distinct)}

\* The call writes no ledger state; only its outcome is kept.
ReportDoubleSpend ==
    \E result \in ReportOutcomes :
        /\ last' = [op |-> "report_double_spend", result |-> result, amount |-> 0]
        /\ UNCHANGED <<users, deposited, call, wallet, held, threads>>

Next == Deposit \/ ProcessPayment \/ ReportDoubleSpend

Spec == Init /\ [][Next]_vars

(***************************************************************************)
(* Transaction.calculate_payment on its own: a caller holds a check of     *)
(* some amount and a VRF output, and computes the payment.                 *)
(***************************************************************************)
CalcMaxAmount == 25

InitCalc ==
    /\ users = <<>>
    /\ last = NoCall
    /\ deposited = 0
    /\ call \in [op : {"none"}, amount : 1..CalcMaxAmount, attempt : Betas, result : {0}]
    /\ wallet = Idle
    /\ held = Idle
    /\ threads = Idle

CalculatePayment ==
    /\ call.op = "none"
    /\ call' = [call EXCEPT !.op = "calculate_payment",
                            !.result = calculate_payment(MP, call.amount, call.attempt)]
    /\ UNCHANGED <<users, last, deposited, wallet, held, threads>>

NextCalc == CalculatePayment

SpecCalc == InitCalc /\ [][NextCalc]_vars

(***************************************************************************)
(* The bank with a payee who keeps a check that process_payment turned     *)
(* down for its coin interval or for lack of funds, and presents the same  *)
(* check and proofs again later.  `held` is what the payee keeps.          *)
(***************************************************************************)
NoHeld ==
    [state |-> "none", tx |-> NoTx, sender_sig |-> NoSig, receiver_sig |-> NoSig,
     err |-> "none", amount_paid |-> 0]

InitResubmit ==
    /\ users = <<>>
    /\ last = NoCall
    /\ deposited = 0
    /\ call = Idle
    /\ wallet = Idle
    /\ held = NoHeld
    /\ threads = Idle

\* Bank.deposit, by anyone, until the kept check has been presented again.
OtherDeposit ==
    /\ held.state # "resubmitted"
    /\ \E user_key \in Keys, amount \in DepositAmounts :
          LET u1 == deposit(users, user_key, amount)
          IN /\ u1[user_key].total_received >= -MaxOverdraw
             /\ u1[user_key].total_received <= MaxTotal
             /\ users' = u1
             /\ UNCHANGED <<last, deposited, call, wallet, held, threads>>

\* Bank.process_payment of any check, by anyone, likewise.
OtherPayment ==
    /\ held.state # "resubmitted"
    /\ \E tx \in Checks, sender_sig \in SenderSigs, receiver_sig \in ReceiverSigs :
          /\ VRFUnique(users, tx, sender_sig, receiver_sig)
          /\ \E intersect_tx \in SharedOf(users, tx) :
                LET v == validate_payment(users, tx, sender_sig, receiver_sig,
                                          intersect_tx)
                    u1 == process_payment(users, tx, sender_sig, receiver_sig, v)
                IN /\ \A k \in DOMAIN u1 : u1[k].total_received <= MaxTotal
                   /\ users' = u1
                   /\ UNCHANGED <<last, deposited, call, wallet, held, threads>>

\* A process_payment call that fails with one of the two errors; the payee
\* keeps the check and its proofs.
SubmitRejected ==
    /\ held.state = "none"
    /\ \E tx \in Checks, sender_sig \in SenderSigs, receiver_sig \in ReceiverSigs :
          /\ VRFUnique(users, tx, sender_sig, receiver_sig)
          /\ \E intersect_tx \in SharedOf(users, tx) :
                LET v == validate_payment(users, tx, sender_sig, receiver_sig,
                                          intersect_tx)
                IN /\ v.err \in {"InvalidCoinInterval", "NotEnoughFunds"}
                   /\ users' = process_payment(users, tx, sender_sig, receiver_sig, v)
                   /\ held' = [state |-> "rejected", tx |-> tx,
                               sender_sig |-> sender_sig, receiver_sig |-> receiver_sig,
                               err |-> v.err, amount_paid |-> v.amount_paid]
                   /\ UNCHANGED <<last, deposited, call, wallet, threads>>

\* The process_payment call that presents the kept check again.
Resubmit ==
    /\ held.state = "rejected"
    /\ \E intersect_tx \in SharedOf(users, held.tx) :
          LET v == validate_payment(users, held.tx, held.sender_sig,
                                    held.receiver_sig, intersect_tx)
              u1 == process_payment(users, held.tx, held.sender_sig,
                                    held.receiver_sig, v)
          IN /\ \A k \in DOMAIN u1 : u1[k].total_received <= MaxTotal
             /\ users' = u1
             /\ held' = [held EXCEPT !.state = "resubmitted", !.err = v.err,
                                     !.amount_paid = v.amount_paid]
             /\ UNCHANGED <<last, deposited, call, wallet, threads>>

NextResubmit == OtherDeposit \/ OtherPayment \/ SubmitRejected \/ Resubmit

SpecResubmit == InitResubmit /\ [][NextResubmit]_vars

(***************************************************************************)
(* Two callers of process_payment at one bank.  Each makes one call, which *)
(* validates and then commits.  With threads.atomic a call runs from       *)
(* validation to commit without the other                                  *)
(* caller in between; without it the two calls interleave freely.          *)
(* Deposits are made before the first call begins.                         *)
(***************************************************************************)
Callers == 1..2

IdleThread ==
    [pc |-> "idle", tx |-> NoTx, sender_sig |-> NoSig, receiver_sig |-> NoSig,
     amount_paid |-> 0]

InitConcurrent ==
    /\ users = <<>>
    /\ last = NoCall
    /\ deposited = 0
    /\ call = Idle
    /\ wallet = Idle
    /\ held = Idle
    /\ threads \in [atomic : BOOLEAN, t : {[i \in Callers |-> IdleThread]}]

SetupDeposit ==
    /\ \A i \in Callers : threads.t[i].pc = "idle"
    /\ \E user_key \in Keys, amount \in DepositAmounts :
          LET u1 == deposit(users, user_key, amount)
          IN /\ u1[user_key].total_received >= -MaxOverdraw
             /\ u1[user_key].total_received <= MaxTotal
             /\ users' = u1
             /\ UNCHANGED <<last, deposited, call, wallet, held, threads>>

\* amount_paid = self.validate_payment(tx, sender_sig, receiver_sig): an
\* exception ends the call, otherwise the caller goes on to commit.
Validate ==
    \E i \in Callers :
        /\ threads.t[i].pc = "idle"
        /\ threads.atomic => \A j \in Callers : threads.t[j].pc # "validated"
        /\ \E tx \in Checks, sender_sig \in SenderSigs, receiver_sig \in ReceiverSigs :
              /\ VRFUnique(users, tx, sender_sig, receiver_sig)
              /\ \E intersect_tx \in SharedOf(users, tx) :
                    LET v == validate_payment(users, tx, sender_sig, receiver_sig,
                                              intersect_tx)
                    IN threads' = [threads EXCEPT !.t[i] =
                          IF v.err # "ok" THEN [IdleThread EXCEPT !.pc = "failed"]
                          ELSE [pc |-> "validated", tx |-> tx, sender_sig |-> sender_sig,
                                receiver_sig |-> receiver_sig,
                                amount_paid |-> v.amount_paid]]
        /\ UNCHANGED <<users, last, deposited, call, wallet, held>>

\* self.subtract_balance(...); self.add_balance(...) of a validated call.
Commit ==
    \E i \in Callers :
        LET th == threads.t[i]
        IN /\ th.pc = "validated"
           /\ users' = add_balance(
                  subtract_balance(users, th.tx, th.amount_paid, th.sender_sig,
                                   th.receiver_sig),
                  th.tx.receiver_key, th.amount_paid)
           /\ threads' = [threads EXCEPT !.t[i].pc = "committed"]
           /\ UNCHANGED <<last, deposited, call, wallet, held>>

NextConcurrent == SetupDeposit \/ Validate \/ Commit

SpecConcurrent == InitConcurrent /\ [][NextConcurrent]_vars

(***************************************************************************)
(* A wallet on its own: it is created with a local amount up to            *)
(* MaxWalletAmount, pays and countersigns.  `call` keeps the latest call.  *)
(***************************************************************************)
PayAmounts == (-1)..(MaxWalletAmount + 1)

InitWallet ==
    /\ users = <<>>
    /\ last = NoCall
    /\ deposited = 0
    /\ call = [op |-> "none", amount |-> 0, is_int |-> TRUE, result |-> "ok", tx |-> NoTx]
    /\ wallet \in {NewWallet(pubkey, amount) : pubkey \in Keys, amount \in 0..MaxWalletAmount}
    /\ held = Idle
    /\ threads = Idle

Pay ==
    \E receiver_key \in Keys, amount \in PayAmounts, is_int \in BOOLEAN, rawtime \in RawTimes :
        LET r == pay(wallet, receiver_key, amount, is_int, rawtime)
        IN /\ wallet' = r.wallet
           /\ call' = [op |-> "pay", amount |-> amount, is_int |-> is_int,
                       result |-> r.err, tx |-> r.tx]
           /\ UNCHANGED <<users, last, deposited, held, threads>>

SignReceive ==
    \E T \in Checks, sender_sig \in SenderSigs :
        /\ call' = [op |-> "sign_receive", amount |-> 0, is_int |-> TRUE,
                    result |-> sign_receive(wallet, T, sender_sig), tx |-> T]
        /\ UNCHANGED <<users, last, deposited, wallet, held, threads>>

NextWallet == Pay \/ SignReceive

SpecWallet == InitWallet /\ [][NextWallet]_vars

(***************************************************************************)
(* A wallet and the checks it has issued: `held` is the sequence of the    *)
(* checks that successful pay calls returned, each with the sender's       *)
(* proof, as the payees keep them; any two of them may be reported to the  *)
(* bank.  The wallet's sn is written by pay only.                          *)
(***************************************************************************)
InitIssued ==
    /\ users = <<>>
    /\ last = NoCall
    /\ deposited = 0
    /\ call = [op |-> "none", result |-> "ok", i |-> 0, j |-> 0]
    /\ wallet \in {NewWallet(pubkey, amount) : pubkey \in Keys, amount \in 0..MaxWalletAmount}
    /\ held = <<>>
    /\ threads = Idle

PayIssued ==
    \E receiver_key \in Keys, amount \in PayAmounts, is_int \in BOOLEAN, rawtime \in RawTimes :
        LET r == pay(wallet, receiver_key, amount, is_int, rawtime)
        IN /\ wallet' = r.wallet
           /\ held' = IF r.err = "ok" THEN Append(held, <<r.tx, r.sender_sig>>) ELSE held
           /\ call' = [op |-> "pay", result |-> r.err, i |-> 0, j |-> 0]
           /\ UNCHANGED <<users, last, deposited, threads>>

SignReceiveIssued ==
    \E T \in Checks, sender_sig \in SenderSigs :
        /\ call' = [op |-> "sign_receive", result |-> sign_receive(wallet, T, sender_sig),
                    i |-> 0, j |-> 0]
        /\ UNCHANGED <<users, last, deposited, wallet, held, threads>>

\* Bank.report_double_spend for the i-th and the j-th issued check, each
\* with its sender's proof and a proof of its receiver; the two are one
\* object when i = j.
ReportIssued ==
    \E i \in DOMAIN held, j \in DOMAIN held,
       receiver_sig1 \in ReceiverSigs, receiver_sig2 \in ReceiverSigs :
        /\ call' = [op |-> "report_double_spend",
                    result |-> report_double_spend(held[i][1], held[i][2], receiver_sig1,
                                                   held[j][1], held[j][2], receiver_sig2,
                                                   i # j),
                    i |-> i, j |-> j]
        /\ UNCHANGED <<users, last, deposited, wallet, held, threads>>

NextIssued == PayIssued \/ SignReceiveIssued \/ ReportIssued

SpecIssued == InitIssued /\ [][NextIssued]_vars

(***************************************************************************)
(* Bank.intersection_exists on its own, over pairs of checks of one sender *)
(* with serial numbers up to IntervalMaxSn.                                *)
(***************************************************************************)
IntervalMaxSn == 4

IntervalChecks ==
    {Transaction(a[1], a[2], 1, 2, 0) :
        a \in {b \in (1..IntervalMaxSn) \X (1..IntervalMaxSn) :
                  TransactionAsserts(b[1], b[2])}}

InitIntersect ==
    /\ users = <<>>
    /\ last = NoCall
    /\ deposited = 0
    /\ call \in [op : {"none"}, tx1 : IntervalChecks, tx2 : IntervalChecks,
                  result : {FALSE}]
    /\ wallet = Idle
    /\ held = Idle
    /\ threads = Idle

IntersectionExists ==
    /\ call.op = "none"
    /\ call' = [call EXCEPT !.op = "intersection_exists",
                            !.result = intersection_exists(call.tx1, call.tx2)]
    /\ UNCHANGED <<users, last, deposited, wallet, held, threads>>

NextIntersect == IntersectionExists

SpecIntersect == InitIntersect /\ [][NextIntersect]_vars

(***************************************************************************)
(* Bank.report_double_spend on its own: a reporter presents two checks     *)
(* with their proofs, as two objects or as one object passed twice.        *)
(***************************************************************************)
InitReport ==
    /\ users = <<>>
    /\ last = NoCall
    /\ deposited = 0
    /\ call \in {c \in [op : {"none"}, tx1 : Checks, tx2 : Checks,
                         sender_sig1 : SenderSigs, receiver_sig1 : ReceiverSigs,
                         sender_sig2 : SenderSigs, receiver_sig2 : ReceiverSigs,
                         distinct : BOOLEAN, result : {"ok"}] :
                    ~c.distinct => c.tx1 = c.tx2}
    /\ wallet = Idle
    /\ held = Idle
    /\ threads = Idle

ReportCall ==
    /\ call.op = "none"
    /\ call' = [call EXCEPT !.op = "report_double_spend",
                            !.result = report_double_spend(
                                call.tx1, call.sender_sig1, call.receiver_sig1,
                                call.tx2, call.sender_sig2, call.receiver_sig2,
                                call.distinct)]
    /\ UNCHANGED <<users, last, deposited, wallet, held, threads>>

NextReport == ReportCall

SpecReport == InitReport /\ [][NextReport]_vars


(***************************************************************************)
(* Properties                                                              *)
(***************************************************************************)
\* The coins a check claims.
Interval(tx) == (tx.sn - tx.amount + 1)..tx.sn

\* The checks stored for pubkey k.
StoredTxs(k) == {users[k].history[sn][1] : sn \in DOMAIN users[k].history}

RECURSIVE SumBalance(_)
SumBalance(S) ==
    IF S = {} THEN 0
    ELSE LET k == CHOOSE x \in S : TRUE
         IN users[k].balance + SumBalance(S \ {k})

\* C1: for every pubkey, the coin intervals [sn-amount+1, sn] of the checks
\* stored in its history are pairwise disjoint.
IntervalDisjointness ==
    \A k \in DOMAIN users :
        \A sn1 \in DOMAIN users[k].history, sn2 \in DOMAIN users[k].history :
            sn1 # sn2 =>
                Interval(users[k].history[sn1][1]) \cap Interval(users[k].history[sn2][1]) = {}

\* C1 witness: a sender with two stored checks, after an overlapping check
\* of some sender was turned down as a double spend.
TwoStoredChecks ==
    /\ \E k \in DOMAIN users : Cardinality(DOMAIN users[k].history) >= 2
    /\ last.op = "process_payment"
    /\ last.result = "DoubleSpend"

\* C2: after any sequence of successful bank operations, balance(k) >= 0
\* for every pubkey k.
BalanceNonNegative == \A k \in DOMAIN users : users[k].balance >= 0

\* C3: the sum of balance over all pubkeys equals the sum of all amounts
\* deposited so far; payments neither create nor destroy coins.
Conservation == SumBalance(DOMAIN users) = deposited

\* C3 witness: coins were deposited and a payment has just been committed,
\* some stored payment being one from a pubkey to itself.
ConservationCase ==
    /\ last.op = "process_payment"
    /\ last.result = "ok"
    /\ deposited > 0
    /\ \E k \in DOMAIN users : \E tx \in StoredTxs(k) : tx.receiver_key = k

\* C4: an operation that returns an error leaves the whole ledger unchanged:
\* the same records, balances, total_received and histories.
FailedOpsChangeNothing == [][last'.result # "ok" => users' = users]_vars

\* C4 witness: a payment has just failed for lack of funds while some pubkey
\* (a possible receiver) still has no record.
FailedPaymentCase ==
    /\ last.op = "process_payment"
    /\ last.result = "NotEnoughFunds"
    /\ DOMAIN users # Keys

\* C5: deposit(user_key, amount) with amount <= 0 fails and leaves the ledger
\* unchanged; only a positive amount is credited.
DepositRejectsNonPositive ==
    [][(last'.op = "deposit" /\ last'.amount <= 0) =>
            (last'.result # "ok" /\ users' = users)]_vars

\* What a call process_payment(tx, sender_sig, receiver_sig) made in the
\* current state meets: proofs that verify, the payable amount, a record of
\* the sender, stored checks of the sender over some of the same coins.
Signed(sender_sig, receiver_sig) == sender_sig.valid /\ receiver_sig.valid
Payable(tx, receiver_sig) == PaymentTable[tx.amount, receiver_sig.beta]
Known(tx) == tx.sender_key \in DOMAIN users
Meeting(tx) == {p \in StoredTxs(tx.sender_key) : Interval(p) \cap Interval(tx) # {}}
InRange(tx) == tx.sn - tx.amount >= 0 /\ tx.sn <= users[tx.sender_key].total_received
Funded(tx, receiver_sig) == users[tx.sender_key].balance >= Payable(tx, receiver_sig)

\* The errors validate_payment may end in for the call, one for each check
\* find_shared_sn_subrange may return.
ErrorsOf(tx, sender_sig, receiver_sig) ==
    {validate_payment(users, tx, sender_sig, receiver_sig, intersect_tx).err :
        intersect_tx \in SharedOf(users, tx)}

\* C6: for a payable, correctly signed check of a sender with a record,
\* process_payment fails with AlreadyProcessed iff an equal check is stored
\* for the sender, and with DoubleSpend iff the check meets a stored check and
\* no equal check is stored; every stored check presented again with its
\* proofs yields AlreadyProcessed.
OverlapOutcome ==
    /\ \A tx \in Checks, sender_sig \in SenderSigs, receiver_sig \in ReceiverSigs :
          (Signed(sender_sig, receiver_sig) /\ Payable(tx, receiver_sig) > 0 /\ Known(tx)) =>
              \A err \in ErrorsOf(tx, sender_sig, receiver_sig) :
                  /\ err = "AlreadyProcessed" <=> tx \in StoredTxs(tx.sender_key)
                  /\ err = "DoubleSpend" <=>
                         (Meeting(tx) # {} /\ tx \notin StoredTxs(tx.sender_key))
    /\ \A k \in DOMAIN users : \A sn \in DOMAIN users[k].history :
          LET entry == users[k].history[sn]
          IN ErrorsOf(entry[1], entry[2], entry[3]) = {"AlreadyProcessed"}

\* C6 witness: a stored check was presented again and turned down as already
\* processed, its sender holding a second stored check.
ReplayCase ==
    /\ last.op = "process_payment"
    /\ last.result = "AlreadyProcessed"
    /\ \E k \in DOMAIN users : Cardinality(DOMAIN users[k].history) >= 2

\* C7: process_payment reports the error of the earliest failing step in the
\* order: signatures, NotPayable, UnknownSender, overlap (AlreadyProcessed or
\* DoubleSpend), InvalidCoinInterval, NotEnoughFunds.
ErrorOrder ==
    \A tx \in Checks, sender_sig \in SenderSigs, receiver_sig \in ReceiverSigs :
        \A err \in ErrorsOf(tx, sender_sig, receiver_sig) :
            LET signed == Signed(sender_sig, receiver_sig)
                payable == signed /\ Payable(tx, receiver_sig) > 0
                known == payable /\ Known(tx)
                free == known /\ Meeting(tx) = {}
                inrange == free /\ InRange(tx)
            IN /\ err = "InvalidSignature" <=> ~signed
               /\ err = "NotPayable" <=> (signed /\ ~payable)
               /\ err = "UnknownSender" <=> (payable /\ ~known)
               /\ err \in {"AlreadyProcessed", "DoubleSpend"} <=> (known /\ ~free)
               /\ err = "InvalidCoinInterval" <=> (free /\ ~inrange)
               /\ err = "NotEnoughFunds" <=> (inrange /\ ~Funded(tx, receiver_sig))
               /\ err = "ok" <=> (inrange /\ Funded(tx, receiver_sig))

\* C7 witness: a payment has just failed with InvalidCoinInterval in a state
\* where a payable check both meets a stored check and lies beyond
\* total_received, and another lies beyond total_received and exceeds the
\* balance.
ErrorOrderCase ==
    /\ last.op = "process_payment"
    /\ last.result = "InvalidCoinInterval"
    /\ \E tx \in Checks, receiver_sig \in ReceiverSigs :
          /\ receiver_sig.valid /\ Payable(tx, receiver_sig) > 0 /\ Known(tx)
          /\ Meeting(tx) # {}
          /\ tx.sn > users[tx.sender_key].total_received
    /\ \E tx \in Checks, receiver_sig \in ReceiverSigs :
          /\ receiver_sig.valid /\ Payable(tx, receiver_sig) > 0 /\ Known(tx)
          /\ Meeting(tx) = {}
          /\ tx.sn > users[tx.sender_key].total_received
          /\ ~Funded(tx, receiver_sig)

BalanceIn(u, k) == IF k \in DOMAIN u THEN u[k].balance ELSE 0
TotalReceivedIn(u, k) == IF k \in DOMAIN u THEN u[k].total_received ELSE 0
HistoryIn(u, k) == IF k \in DOMAIN u THEN u[k].history ELSE <<>>

\* C8: a successful process_payment with payable amount P takes exactly P
\* from balance[sender], stores (tx, sender_sig, receiver_sig) under
\* history[sender][tx.sn], creates the receiver's record if absent and adds
\* exactly P to balance[receiver] and total_received[receiver]; nothing else
\* changes (for sender = receiver the two changes of the balance add up).
PaymentEffect ==
    \A tx \in Checks, sender_sig \in SenderSigs, receiver_sig \in ReceiverSigs :
        \A intersect_tx \in SharedOf(users, tx) :
            LET v == validate_payment(users, tx, sender_sig, receiver_sig, intersect_tx)
                u1 == process_payment(users, tx, sender_sig, receiver_sig, v)
                P == Payable(tx, receiver_sig)
                s == tx.sender_key
                r == tx.receiver_key
            IN v.err = "ok" =>
                /\ P > 0
                /\ DOMAIN u1 = DOMAIN users \cup {r}
                /\ \A k \in DOMAIN u1 :
                      /\ BalanceIn(u1, k) = BalanceIn(users, k)
                                              - (IF k = s THEN P ELSE 0)
                                              + (IF k = r THEN P ELSE 0)
                      /\ TotalReceivedIn(u1, k) = TotalReceivedIn(users, k)
                                                    + (IF k = r THEN P ELSE 0)
                      /\ k # s => HistoryIn(u1, k) = HistoryIn(users, k)
                /\ tx.sn \notin DOMAIN users[s].history
                /\ DOMAIN u1[s].history = DOMAIN users[s].history \cup {tx.sn}
                /\ u1[s].history[tx.sn] = <<tx, sender_sig, receiver_sig>>
                /\ \A sn \in DOMAIN users[s].history :
                      u1[s].history[sn] = users[s].history[sn]

\* C8 witness: a payment of one macro payment has just been committed, and
\* a further payment from a sender with a stored check can be committed.
PaymentCase ==
    /\ last.op = "process_payment"
    /\ last.result = "ok"
    /\ last.amount = MP
    /\ \E tx \in Checks, sender_sig \in SenderSigs, receiver_sig \in ReceiverSigs :
          /\ Known(tx)
          /\ users[tx.sender_key].history # <<>>
          /\ tx.sender_key # tx.receiver_key
          /\ ErrorsOf(tx, sender_sig, receiver_sig) = {"ok"}

\* C9: total_received(k) never decreases, whatever operation is made.
TotalReceivedMonotone ==
    [][\A k \in DOMAIN users :
          k \in DOMAIN users' /\ users'[k].total_received >= users[k].total_received]_vars

\* C10: every check stored in the history of pubkey k satisfies
\* 0 < sn - amount + 1 and sn <= total_received(k).
StoredChecksInRange ==
    \A k \in DOMAIN users : \A tx \in StoredTxs(k) :
        0 < tx.sn - tx.amount + 1 /\ tx.sn <= users[k].total_received

\* C11: balance(k) <= total_received(k) for every pubkey k.
BalanceAtMostReceived ==
    \A k \in DOMAIN users : users[k].balance <= users[k].total_received

\* C11 witness: after a committed payment, one pubkey has spent part of what
\* it received and another holds all it received.
SpentAndUnspent ==
    /\ last.op = "process_payment"
    /\ last.result = "ok"
    /\ \E k \in DOMAIN users : users[k].balance < users[k].total_received
    /\ \E k \in DOMAIN users :
          users[k].balance = users[k].total_received /\ users[k].balance > 0

\* The lottery of a check of this amount is lost with VRF output attempt.
LotteryLost(amount, attempt) == ~BelowTarget(attempt, FloatDiv(amount % MP, MP))

\* The payment is 0 exactly for an amount below MP whose lottery is lost.
ZeroOnlyBelowMP ==
    \A amount \in 1..CalcMaxAmount, attempt \in Betas :
        calculate_payment(MP, amount, attempt) = 0
            <=> (amount < MP /\ LotteryLost(amount, attempt))

RECURSIVE PaidOut(_, _)
PaidOut(k, S) ==
    IF S = {} THEN 0
    ELSE LET sn == CHOOSE x \in S : TRUE
             entry == users[k].history[sn]
         IN Payable(entry[1], entry[3]) + PaidOut(k, S \ {sn})

\* C20: balance(k) = total_received(k) minus the payable amounts of all the
\* checks stored in history[k], payments of a pubkey to itself included.
BalanceIsReceivedMinusPaid ==
    \A k \in DOMAIN users :
        users[k].balance = users[k].total_received - PaidOut(k, DOMAIN users[k].history)

\* C20 witness: a pubkey has paid itself and, in all, paid out more than
\* one macro payment.
SelfPaymentCase ==
    \E k \in DOMAIN users :
        /\ \E tx \in StoredTxs(k) : tx.receiver_key = k
        /\ PaidOut(k, DOMAIN users[k].history) > MP

\* C14: the payable amount is full + MP if X < (amount mod MP)/MP * 2^L
\* (strictly) and full otherwise, with full = (amount // MP) * MP; so it is
\* full or full + MP, a multiple of MP, equal to amount exactly when amount
\* is a multiple of MP, and X at the threshold does not win.
PaymentByExactThreshold ==
    call.op = "calculate_payment" =>
        LET full == (call.amount \div MP) * MP
            wins == call.attempt * MP < (call.amount % MP) * Pow2(BetaBits)
        IN /\ call.result = IF wins THEN full + MP ELSE full
           /\ call.result \in {full, full + MP}
           /\ call.result % MP = 0
           /\ (call.result = call.amount) <=> (call.amount % MP = 0)

\* The number of VRF outputs with which a check of this amount pays MP more
\* than its whole macro payments.
Wins(amount) ==
    Cardinality({attempt \in Betas :
        calculate_payment(MP, amount, attempt) = (amount \div MP) * MP + MP})

DoubleSpendIffDifferent ==
    (/\ call.op = "report_double_spend"
     /\ Signed(call.sender_sig1, call.receiver_sig1)
     /\ Signed(call.sender_sig2, call.receiver_sig2)) =>
        /\ call.result \in {"DoubleSpend", "ok"}
        /\ call.result = "DoubleSpend" <=>
               (/\ ~TxEq(call.tx1, call.tx2)
                /\ call.tx1.sender_key = call.tx2.sender_key
                /\ intersection_exists(call.tx1, call.tx2))
        /\ call.result = report_double_spend(
                             call.tx2, call.sender_sig2, call.receiver_sig2,
                             call.tx1, call.sender_sig1, call.receiver_sig1,
                             call.distinct)

Max(a, b) == IF a >= b THEN a ELSE b
Min(a, b) == IF a <= b THEN a ELSE b

\* C19: for checks with sn >= amount >= 1, intersection_exists(tx1, tx2) is
\* true if and only if max(lo1, lo2) <= min(hi1, hi2) with [lo, hi] =
\* [sn - amount + 1, sn], that is iff the two coin sets share a coin; the
\* result is symmetric, and adjacent intervals (sn1 = sn2 - amount2) do not
\* intersect.
IntersectionIsOverlap ==
    call.op = "intersection_exists" =>
        LET lo1 == call.tx1.sn - call.tx1.amount + 1
            lo2 == call.tx2.sn - call.tx2.amount + 1
        IN /\ call.result <=> (Max(lo1, lo2) <= Min(call.tx1.sn, call.tx2.sn))
           /\ call.result <=> (Interval(call.tx1) \cap Interval(call.tx2) # {})
           /\ call.result <=> intersection_exists(call.tx2, call.tx1)
           /\ call.tx1.sn = call.tx2.sn - call.tx2.amount => ~call.result

\* C19 witness: the second check starts right after the first one ends, both
\* of more than one coin, and the call has answered.
AdjacentIntervals ==
    /\ call.op = "intersection_exists"
    /\ call.tx1.sn = call.tx2.sn - call.tx2.amount
    /\ call.tx1.amount > 1
    /\ call.tx2.amount > 1
    /\ ~call.result

\* C16: Wallet.pay(receiver_key, amount) succeeds exactly when
\* 1 <= amount <= the wallet's local amount; on success the returned check
\* has sn = old wallet sn + amount, amount = amount and sender_key = the
\* wallet's pubkey, the wallet's sn has grown by amount and its local amount
\* has shrunk by amount; on failure sn and local amount are unchanged.
PayContract ==
    [][call'.op = "pay" =>
        /\ call'.is_int =>
               (call'.result = "ok" <=> (1 <= call'.amount /\ call'.amount <= wallet.amount))
        /\ call'.result = "ok" =>
               /\ call'.tx.sn = wallet.sn + call'.amount
               /\ call'.tx.amount = call'.amount
               /\ call'.tx.sender_key = wallet.pubkey
               /\ wallet'.sn = wallet.sn + call'.amount
               /\ wallet'.amount = wallet.amount - call'.amount
        /\ call'.result # "ok" =>
               (wallet'.sn = wallet.sn /\ wallet'.amount = wallet.amount)]_vars

\* C16 witness: the wallet has issued more than one coin and still holds
\* some, and the latest call, a payment of more than it holds, was refused.
PaidThenRefused ==
    /\ call.op = "pay"
    /\ call.result = "ValueError"
    /\ call.amount > wallet.amount
    /\ call.amount >= 1
    /\ wallet.sn > 1
    /\ wallet.amount > 0

\* C12: a check that process_payment rejects with InvalidCoinInterval or
\* NotEnoughFunds is recorded nowhere; presented again with the same proofs
\* when tx.sn <= total_received(sender), balance(sender) >= payable and no
\* stored check of the sender meets its interval, it is accepted and the
\* payable amount moves from the sender to the receiver.
RejectedCheckNotBurned ==
    [][/\ (held.state = "none" /\ held'.state = "rejected") => users' = users
       /\ (held.state = "rejected" /\ held'.state = "resubmitted"
              /\ InRange(held.tx) /\ Funded(held.tx, held.receiver_sig)
              /\ Meeting(held.tx) = {}) =>
            LET P == Payable(held.tx, held.receiver_sig)
                sender == held.tx.sender_key
                receiver == held.tx.receiver_key
            IN /\ held'.err = "ok"
               /\ held'.amount_paid = P
               /\ P > 0
               /\ users'[sender].history[held.tx.sn]
                     = <<held.tx, held.sender_sig, held.receiver_sig>>
               /\ users'[receiver].total_received = TotalReceivedIn(users, receiver) + P
               /\ users'[sender].balance =
                     IF sender = receiver THEN users[sender].balance
                     ELSE users[sender].balance - P
               /\ sender # receiver =>
                     users'[receiver].balance = BalanceIn(users, receiver) + P]_vars

\* C12 witness: a kept check has been presented again and paid, to a payee
\* other than the sender.
ResubmittedAndPaid ==
    /\ held.state = "resubmitted"
    /\ held.err = "ok"
    /\ held.amount_paid = MP
    /\ held.tx.sender_key # held.tx.receiver_key
    /\ users[held.tx.sender_key].history[held.tx.sn][1] = held.tx
    /\ users[held.tx.receiver_key].total_received >= MP


\* The call of caller i has committed.
Committed(i) == threads.t[i].pc = "committed"

\* The entry that caller i committed is no longer the one stored.
Overwritten(i) ==
    /\ Committed(i)
    /\ users[threads.t[i].tx.sender_key].history[threads.t[i].tx.sn]
          # <<threads.t[i].tx, threads.t[i].sender_sig, threads.t[i].receiver_sig>>

\* Interval disjointness is broken, a committed entry is overwritten, or a
\* committed call has left its sender with a negative balance.
RaceDamage ==
    \/ ~IntervalDisjointness
    \/ \E i \in Callers : Overwritten(i)
    \/ \E i \in Callers :
          Committed(i) /\ users[threads.t[i].tx.sender_key].balance < 0

\* The two callers hold distinct checks of one sender with intersecting
\* coin intervals, both past validation.
Racing ==
    /\ \A i \in Callers : threads.t[i].pc \in {"validated", "committed"}
    /\ ~TxEq(threads.t[1].tx, threads.t[2].tx)
    /\ threads.t[1].tx.sender_key = threads.t[2].tx.sender_key
    /\ Interval(threads.t[1].tx) \cap Interval(threads.t[2].tx) # {}

\* C17: when two process_payment calls for distinct, overlapping, payable
\* checks of one sender both validate before either commits, both commit
\* and the ledger then breaks interval disjointness, has lost a same-sn
\* entry or shows a negative balance of the sender; when validation and
\* commit are one atomic step, two such calls never both pass validation
\* and no such ledger is reached.
AtomicityNeeded ==
    /\ threads.atomic => (~Racing /\ ~RaceDamage)
    /\ (~threads.atomic /\ Racing /\ Committed(1) /\ Committed(2)) => RaceDamage

\* C17 witness: without atomicity both calls for two distinct overlapping
\* checks of different serial numbers have committed, and the sender's
\* stored intervals intersect.
RaceCommitted ==
    /\ ~threads.atomic
    /\ Racing
    /\ Committed(1)
    /\ Committed(2)
    /\ threads.t[1].tx.sn # threads.t[2].tx.sn
    /\ ~IntervalDisjointness


\* In the present ledger no call of process_payment succeeds for a sender
\* whose balance is below MP, and a call that succeeds pays a positive
\* multiple of MP.
NoSpendBelowMP ==
    /\ \A amount \in 1..CalcMaxAmount, attempt \in Betas :
          calculate_payment(MP, amount, attempt) % MP = 0
    /\ \A tx \in Checks, sender_sig \in SenderSigs, receiver_sig \in ReceiverSigs :
          \A intersect_tx \in SharedOf(users, tx) :
              LET v == validate_payment(users, tx, sender_sig, receiver_sig, intersect_tx)
              IN v.err = "ok" =>
                    /\ v.amount_paid > 0
                    /\ v.amount_paid % MP = 0
                    /\ users[tx.sender_key].balance >= MP

\* A step leaves alone the history of every pubkey whose balance is below
\* MP, and changes its balance only by a deposit or by the amount of a
\* payment it receives.
FrozenBelowMP ==
    \A k \in Keys :
        BalanceIn(users, k) < MP =>
            /\ HistoryIn(users', k) = HistoryIn(users, k)
            /\ BalanceIn(users', k) # BalanceIn(users, k) =>
                  \/ last'.op = "deposit"
                  \/ /\ last'.op = "process_payment"
                     /\ last'.result = "ok"
                     /\ BalanceIn(users', k) = BalanceIn(users, k) + last'.amount

IssuedConsecutive ==
    /\ wallet.sn >= 0
    /\ wallet.sn = IF held = <<>> THEN 0 ELSE held[Len(held)][1].sn
    /\ \A k \in DOMAIN held :
          /\ held[k][1].sender_key = wallet.pubkey
          /\ held[k][1].sn - held[k][1].amount + 1
                = IF k = 1 THEN 1 ELSE held[k - 1][1].sn + 1
    /\ \A k \in DOMAIN held : \A l \in DOMAIN held :
          k # l => Interval(held[k][1]) \cap Interval(held[l][1]) = {}
    /\ call.op = "report_double_spend" => call.result # "DoubleSpend"

\* A step never lowers the wallet's sn and keeps sn + amount; sign_receive
\* writes nothing of the wallet.
WalletStep ==
    /\ wallet'.sn >= wallet.sn
    /\ wallet'.sn + wallet'.amount = wallet.sn + wallet.amount
    /\ call'.op = "sign_receive" => wallet' = wallet

\* C22: a wallet's sn starts at 0 and never decreases under pay and
\* sign_receive (which changes no wallet state); the checks of successive
\* successful pay calls claim consecutive, pairwise disjoint intervals;
\* report_double_spend never raises DoubleSpend for two checks the wallet
\* issued; and sn + amount of the wallet is constant.
WalletIssuesDisjoint == []IssuedConsecutive /\ [][WalletStep]_vars

\* C22 witness: two different checks of the wallet, both with verifying
\* proofs, have been reported, and the report returned normally.
IssuedPairReported ==
    /\ call.op = "report_double_spend"
    /\ call.result = "ok"
    /\ call.i # call.j
    /\ Len(held) >= 2
    /\ wallet.sn >= 2

====
